---- MODULE Spec2Model ----
(***************************************************************************)
(* Model of src/moving_average_filter.py, class MovingAverageFilter: a     *)
(* ring buffer of window_size floats, a write index and a running sum that *)
(* is updated incrementally in floating-point arithmetic.                  *)
(*                                                                         *)
(* Floats.  Python floats and the float64 ring are IEEE-754 binary64:      *)
(* every +, - and / is rounded to the nearest value with 53 significant    *)
(* bits, ties to even.  The model keeps that arithmetic and scales it      *)
(* down: a float is an integer count of quanta (the smallest positive      *)
(* float), and a value is representable when it has at most Precision      *)
(* significant bits.  One is the float 1.0.  Overflow to infinity is not   *)
(* modelled (the exponent is unbounded).                                   *)
(***************************************************************************)
EXTENDS Integers, Sequences, FiniteSets, TLC

\* ------------------------------------------------------------ bounds
Precision == 3      \* significant bits of a float (53 in binary64)
MaxN == 3           \* largest window_size constructed
MaxSamples == 4     \* samples processed over an averager's life
MaxSignal == 2      \* longest array handed to filter_signal
MaxPoints == 1      \* largest num_points handed to get_frequency_response
MaxPeerSamples == 2 \* samples each of two independent averagers processes
MaxRaceCalls == 3   \* filter_sample calls two threads make on a shared averager

\* ------------------------------------------------------------ floats
Abs(a) == IF a < 0 THEN -a ELSE a

RECURSIVE Pow2(_)
Pow2(n) == IF n <= 0 THEN 1 ELSE 2 * Pow2(n - 1)

\* The float 1.0, and the first power of two whose successor integer needs
\* Precision + 1 bits.
One == Pow2(Precision - 1)
Big == Pow2(Precision) * One

\* The spacing of the floats around a magnitude whose integer part is q.
RECURSIVE Ulp(_, _)
Ulp(q, u) == IF q < Pow2(Precision) * u THEN u ELSE Ulp(q, 2 * u)

\* num / den (den > 0) rounded to the nearest float, ties to even.
RoundMag(a, den) ==
    LET u == Ulp(a \div den, 1)
        n == a \div (den * u)
        r == a - n * den * u
        up == \/ 2 * r > den * u
              \/ 2 * r = den * u /\ n % 2 = 1
    IN  (IF up THEN n + 1 ELSE n) * u

Round(num, den) ==
    IF num < 0 THEN -RoundMag(-num, den) ELSE RoundMag(num, den)

FlAdd(a, b) == Round(a + b, 1)
FlSub(a, b) == Round(a - b, 1)
FlDiv(a, n) == Round(a, n)

IsFloat(v) == Round(v, 1) = v
IsIntegral(v) == v % One = 0

\* A float stored into an int64 array: the fraction is dropped (toward 0).
ToInt64(v) == IF v < 0 THEN -(((-v) \div One) * One) ELSE (v \div One) * One

\* ------------------------------------------------------------ inputs
Samples == {-One, 0, One, Big}
WindowSizes == -1 .. MaxN
NumPoints == -1 .. MaxPoints
DTypes == {"int64", "float64"}

\* The arrays of n samples handed to filter_signal.
Signals(n) == [1 .. n -> Samples]

\* The element type numpy gives an array: int64 only when every element is
\* an integer, float64 otherwise (an empty list is float64).
DTypesOf(xs) ==
    IF xs # <<>> /\ \A i \in 1 .. Len(xs) : IsIntegral(xs[i])
    THEN DTypes ELSE {"float64"}

\* ------------------------------------------------------------ the class
NULL == [none |-> TRUE]

\* np.zeros(n): n zeros, indexed from 0.
Zeros(n) == [i \in 0 .. n - 1 |-> 0]

\* __init__: raises ValueError (from np.zeros) for a negative window_size,
\* and returns an object for every other one, 0 included.
MovingAverageFilter(ws) ==
    IF ws < 0
    THEN [raised |-> "ValueError", self |-> NULL]
    ELSE [raised |-> "",
          self |-> [window_size |-> ws, buffer |-> Zeros(ws),
                    index |-> 0, sum |-> 0]]

\* filter_sample with the oldest sample never taken out of the sum.
filter_sample_keeps_oldest(s, input_sample) ==
    IF s.index \notin DOMAIN s.buffer
    THEN [raised |-> "IndexError", self |-> s, value |-> 0]
    ELSE LET buf == [s.buffer EXCEPT ![s.index] = input_sample]
             sum2 == FlAdd(s.sum, input_sample)
             idx == (s.index + 1) % s.window_size
         IN  [raised |-> "",
              self |-> [window_size |-> s.window_size, buffer |-> buf,
                        index |-> idx, sum |-> sum2],
              value |-> FlDiv(sum2, s.window_size)]

\* filter_sample with the index wrapping one slot late.
filter_sample_wraps_late(s, input_sample) ==
    IF s.index \notin DOMAIN s.buffer
    THEN [raised |-> "IndexError", self |-> s, value |-> 0]
    ELSE LET sum1 == FlSub(s.sum, s.buffer[s.index])
             buf == [s.buffer EXCEPT ![s.index] = input_sample]
             sum2 == FlAdd(sum1, input_sample)
             idx == (s.index + 1) % (s.window_size + 1)
         IN  [raised |-> "",
              self |-> [window_size |-> s.window_size, buffer |-> buf,
                        index |-> idx, sum |-> sum2],
              value |-> FlDiv(sum2, s.window_size)]

\* filter_sample taking the first slot, not the one about to be overwritten,
\* out of the sum.
filter_sample_evicts_first(s, input_sample) ==
    IF s.index \notin DOMAIN s.buffer
    THEN [raised |-> "IndexError", self |-> s, value |-> 0]
    ELSE LET sum1 == FlSub(s.sum, s.buffer[0])
             buf == [s.buffer EXCEPT ![s.index] = input_sample]
             sum2 == FlAdd(sum1, input_sample)
             idx == (s.index + 1) % s.window_size
         IN  [raised |-> "",
              self |-> [window_size |-> s.window_size, buffer |-> buf,
                        index |-> idx, sum |-> sum2],
              value |-> FlDiv(sum2, s.window_size)]

\* filter_sample advancing the index by two slots.
filter_sample_skips_slot(s, input_sample) ==
    IF s.index \notin DOMAIN s.buffer
    THEN [raised |-> "IndexError", self |-> s, value |-> 0]
    ELSE LET sum1 == FlSub(s.sum, s.buffer[s.index])
             buf == [s.buffer EXCEPT ![s.index] = input_sample]
             sum2 == FlAdd(sum1, input_sample)
             idx == (s.index + 2) % s.window_size
         IN  [raised |-> "",
              self |-> [window_size |-> s.window_size, buffer |-> buf,
                        index |-> idx, sum |-> sum2],
              value |-> FlDiv(sum2, s.window_size)]

\* filter_sample: indexing the empty ring of a window_size 0 object raises
\* IndexError before anything is written.
filter_sample(s, input_sample) ==
    IF s.index \notin DOMAIN s.buffer
    THEN [raised |-> "IndexError", self |-> s, value |-> 0]
    ELSE LET sum1 == FlSub(s.sum, s.buffer[s.index])
             buf == [s.buffer EXCEPT ![s.index] = input_sample]
             sum2 == FlAdd(sum1, input_sample)
             idx == (s.index + 1) % s.window_size
         IN  [raised |-> "",
              self |-> [window_size |-> s.window_size, buffer |-> buf,
                        index |-> idx, sum |-> sum2],
              value |-> FlDiv(sum2, s.window_size)]

\* filter_signal: np.zeros_like(input_signal) has the input's element type,
\* and each filter_sample result is stored into it.
Store(dtype, v) == IF dtype = "int64" THEN ToInt64(v) ELSE v

RECURSIVE filter_signal_loop(_, _, _, _, _)
filter_signal_loop(s, input_signal, dtype, i, output_signal) ==
    IF i > Len(input_signal)
    THEN [raised |-> "", self |-> s, value |-> output_signal]
    ELSE LET r == filter_sample(s, input_signal[i])
         IN  IF r.raised # ""
             THEN [raised |-> r.raised, self |-> r.self, value |-> <<>>]
             ELSE filter_signal_loop(r.self, input_signal, dtype, i + 1,
                      [output_signal EXCEPT ![i] = Store(dtype, r.value)])

filter_signal(s, input_signal, dtype) ==
    filter_signal_loop(s, input_signal, dtype, 1,
                       [i \in 1 .. Len(input_signal) |-> 0])

\* The streaming use of the class: filter_sample called once per element,
\* in order, the results collected in a list (no array, so nothing is cast).
RECURSIVE FilterSamples(_, _, _)
FilterSamples(s, xs, i) ==
    IF i > Len(xs) THEN [self |-> s, values |-> <<>>]
    ELSE LET r == filter_sample(s, xs[i])
             rest == FilterSamples(r.self, xs, i + 1)
         IN  [self |-> rest.self, values |-> <<r.value>> \o rest.values]

\* get_impulse_response computed from the ring instead of from ones.
get_impulse_response_of_ring(s) ==
    [i \in 0 .. s.window_size - 1 |-> FlDiv(s.buffer[i], s.window_size)]

\* get_impulse_response: np.ones(window_size) / window_size.
get_impulse_response(s) ==
    [i \in 0 .. s.window_size - 1 |-> FlDiv(One, s.window_size)]

\* signal.freqz(h, worN = num_points): the angular frequencies pi * k /
\* num_points, k = 0 .. num_points - 1, and the transfer function of the taps
\* h at each; a point of the curve is kept as the term it is computed from.
\* A negative num_points raises ValueError, 0 gives empty curves.
Freqz(h, num_points) ==
    [k \in 0 .. num_points - 1 |-> [taps |-> h, k |-> k, of |-> num_points]]

\* What freqz may do with the taps: it returns for a non-empty h; for the
\* empty h of a window_size 0 object the library decides (either outcome).
FreqzOutcomes(h) == IF DOMAIN h = {} THEN {"", "ValueError"} ELSE {""}

get_frequency_response(s, num_points, outcome) ==
    IF num_points < 0 \/ outcome # ""
    THEN [raised |-> "ValueError", value |-> <<>>]
    ELSE LET h == get_impulse_response(s)
             H == Freqz(h, num_points)
         IN  [raised |-> "",
              value |-> [frequencies |->
                             [k \in 0 .. num_points - 1 |-> <<k, 2 * num_points>>],
                         magnitude |->
                             [k \in 0 .. num_points - 1 |-> <<"abs", H[k]>>],
                         phase |->
                             [k \in 0 .. num_points - 1 |-> <<"angle", H[k]>>]]]

\* ------------------------------------------------------------ the state
\* self: the averager the caller holds (NULL before construction).
\* ret: the last call: its operation, arguments, the object before it (pre),
\*      and what it returned or raised.
\* hist: the samples filter_sample has processed since construction.
\* outs: what filter_sample returned for each of them.
\* heap, objs, logs: two independently constructed averagers, their arrays
\*      held by reference (used by SpecTwo only).
\* threads, overlapped: two threads calling filter_sample on the one
\*      averager self, statement by statement (used by SpecRace only).
VARIABLES self, ret, hist, outs, heap, objs, logs, threads, overlapped

vars == <<self, ret, hist, outs, heap, objs, logs, threads, overlapped>>

Instances == {"a", "b"}
Threads == {1, 2}
NoLog == [hist |-> <<>>, outs |-> <<>>]
IdleThread == [pc |-> "idle", x |-> 0]

NoCall == [op |-> "none"]

Init ==
    /\ self = NULL
    /\ ret = NoCall
    /\ hist = <<>>
    /\ outs = <<>>
    /\ heap = <<>>
    /\ objs = [i \in Instances |-> NULL]
    /\ logs = [i \in Instances |-> NoLog]
    /\ threads = [t \in Threads |-> IdleThread]
    /\ overlapped = FALSE

\* MovingAverageFilter(ws): a raise leaves the caller without an object.
Construct(ws) ==
    /\ self = NULL
    /\ LET r == MovingAverageFilter(ws)
       IN  /\ self' = r.self
           /\ ret' = [op |-> "__init__", arg |-> ws, raised |-> r.raised]
    /\ UNCHANGED <<hist, outs>>
    /\ UNCHANGED <<heap, objs, logs, threads, overlapped>>

FilterSample(x) ==
    /\ self # NULL
    /\ Len(hist) < MaxSamples
    /\ LET r == filter_sample(self, x)
       IN  /\ self' = r.self
           /\ ret' = [op |-> "filter_sample", arg |-> x, pre |-> self,
                      raised |-> r.raised, value |-> r.value]
           /\ hist' = IF r.raised = "" THEN Append(hist, x) ELSE hist
           /\ outs' = IF r.raised = "" THEN Append(outs, r.value) ELSE outs
    /\ UNCHANGED <<heap, objs, logs, threads, overlapped>>

FilterSignal(xs, dtype) ==
    /\ self # NULL
    /\ LET r == filter_signal(self, xs, dtype)
       IN  /\ self' = r.self
           /\ ret' = [op |-> "filter_signal", arg |-> xs, dtype |-> dtype,
                      pre |-> self, raised |-> r.raised, value |-> r.value]
           /\ hist' = IF r.raised = "" THEN hist \o xs ELSE hist
           /\ outs' = IF r.raised = "" THEN outs \o FilterSamples(self, xs, 1).values
                      ELSE outs
    /\ UNCHANGED <<heap, objs, logs, threads, overlapped>>

GetImpulseResponse ==
    /\ self # NULL
    /\ ret' = [op |-> "get_impulse_response", pre |-> self, raised |-> "",
               value |-> get_impulse_response(self)]
    /\ UNCHANGED <<self, hist, outs>>
    /\ UNCHANGED <<heap, objs, logs, threads, overlapped>>

GetFrequencyResponse(num_points) ==
    /\ self # NULL
    /\ \E outcome \in FreqzOutcomes(get_impulse_response(self)) :
           LET r == get_frequency_response(self, num_points, outcome)
           IN  ret' = [op |-> "get_frequency_response", arg |-> num_points,
                       pre |-> self, raised |-> r.raised, value |-> r.value]
    /\ UNCHANGED <<self, hist, outs>>
    /\ UNCHANGED <<heap, objs, logs, threads, overlapped>>

Next ==
    \/ \E ws \in WindowSizes : Construct(ws)
    \/ \E x \in Samples : FilterSample(x)
    \/ \E n \in 0 .. MaxSignal :
           /\ Len(hist) + n <= MaxSamples
           /\ \E xs \in Signals(n) : \E dtype \in DTypesOf(xs) : FilterSignal(xs, dtype)
    \/ GetImpulseResponse
    \/ \E n \in NumPoints : GetFrequencyResponse(n)

Spec == Init /\ [][Next]_vars

\* ------------------------------------------------------------ two averagers
\* np.zeros(n) allocates a new array: the heap grows by one, and the caller
\* gets its address.
np_zeros_shared(h, n) ==
    [heap |-> IF h = <<>> THEN <<Zeros(n)>> ELSE h, addr |-> 1]

np_zeros(h, n) == [heap |-> Append(h, Zeros(n)), addr |-> Len(h) + 1]

PeerWindowSizes == {1, 2}

\* The averager i with its array read through the reference.
View(i) == [objs[i] EXCEPT !.buffer = heap[objs[i].buffer]]

\* __init__ of averager i: its attributes, the ring a reference to a new array.
ConstructOn(i, ws) ==
    /\ objs[i] = NULL
    /\ LET a == np_zeros(heap, ws)
       IN  /\ heap' = a.heap
           /\ objs' = [objs EXCEPT ![i] = [window_size |-> ws, buffer |-> a.addr,
                                           index |-> 0, sum |-> 0]]
    /\ UNCHANGED logs
    /\ UNCHANGED <<self, ret, hist, outs, threads, overlapped>>

\* filter_sample on averager i: it writes the array its own reference names.
FilterSampleOn(i, x) ==
    /\ objs[i] # NULL
    /\ Len(logs[i].hist) < MaxPeerSamples
    /\ LET r == filter_sample(View(i), x)
           addr == objs[i].buffer
       IN  /\ heap' = [heap EXCEPT ![addr] = r.self.buffer]
           /\ objs' = [objs EXCEPT ![i] = [r.self EXCEPT !.buffer = addr]]
           /\ logs' = IF r.raised # "" THEN logs
                      ELSE [logs EXCEPT ![i] = [hist |-> Append(@.hist, x),
                                                outs |-> Append(@.outs, r.value)]]
    /\ UNCHANGED <<self, ret, hist, outs, threads, overlapped>>

NextTwo ==
    \/ \E i \in Instances : \E ws \in PeerWindowSizes : ConstructOn(i, ws)
    \/ \E i \in Instances : \E x \in Samples : FilterSampleOn(i, x)

SpecTwo == Init /\ [][NextTwo]_vars

\* ------------------------------------------------------------ two threads
\* Two threads call filter_sample on the averager self.  Each statement of
\* the method is one step; the interpreter may switch threads between them.
RaceWindowSizes == {1, 2}
RaceSamples == {0, One, Big}

InitRace ==
    /\ self \in {MovingAverageFilter(ws).self : ws \in RaceWindowSizes}
    /\ ret = NoCall
    /\ hist = <<>>
    /\ outs = <<>>
    /\ heap = <<>>
    /\ objs = [i \in Instances |-> NULL]
    /\ logs = [i \in Instances |-> NoLog]
    /\ threads = [t \in Threads |-> IdleThread]
    /\ overlapped = FALSE

AllIdle == \A t \in Threads : threads[t].pc = "idle"

\* Thread t enters filter_sample(x).  hist has one entry per call made.
Call(t, x) ==
    /\ threads[t].pc = "idle"
    /\ Len(hist) < MaxRaceCalls
    /\ threads' = [threads EXCEPT ![t] = [pc |-> "subtract", x |-> x]]
    /\ hist' = Append(hist, 0)
    /\ overlapped' = (overlapped \/ ~AllIdle)
    /\ UNCHANGED <<self, outs>>
    /\ UNCHANGED <<ret, heap, objs, logs>>

\* self.sum -= self.buffer[self.index]
Subtract(t) ==
    /\ threads[t].pc = "subtract"
    /\ self' = [self EXCEPT !.sum = FlSub(self.sum, self.buffer[self.index])]
    /\ threads' = [threads EXCEPT ![t].pc = "store"]
    /\ UNCHANGED <<hist, outs, overlapped>>
    /\ UNCHANGED <<ret, heap, objs, logs>>

\* self.buffer[self.index] = input_sample
StoreSample(t) ==
    /\ threads[t].pc = "store"
    /\ self' = [self EXCEPT !.buffer[self.index] = threads[t].x]
    /\ threads' = [threads EXCEPT ![t].pc = "add"]
    /\ UNCHANGED <<hist, outs, overlapped>>
    /\ UNCHANGED <<ret, heap, objs, logs>>

\* self.sum += input_sample
AddSample(t) ==
    /\ threads[t].pc = "add"
    /\ self' = [self EXCEPT !.sum = FlAdd(self.sum, threads[t].x)]
    /\ threads' = [threads EXCEPT ![t].pc = "advance"]
    /\ UNCHANGED <<hist, outs, overlapped>>
    /\ UNCHANGED <<ret, heap, objs, logs>>

\* self.index = (self.index + 1) % self.window_size
Advance(t) ==
    /\ threads[t].pc = "advance"
    /\ self' = [self EXCEPT !.index = (self.index + 1) % self.window_size]
    /\ threads' = [threads EXCEPT ![t].pc = "return"]
    /\ UNCHANGED <<hist, outs, overlapped>>
    /\ UNCHANGED <<ret, heap, objs, logs>>

\* return self.sum / self.window_size: outs holds the value last returned.
Return(t) ==
    /\ threads[t].pc = "return"
    /\ outs' = <<FlDiv(self.sum, self.window_size)>>
    /\ threads' = [threads EXCEPT ![t] = IdleThread]
    /\ UNCHANGED <<self, hist, overlapped>>
    /\ UNCHANGED <<ret, heap, objs, logs>>

NextRace ==
    \/ \E t \in Threads : \E x \in RaceSamples : Call(t, x)
    \/ \E t \in Threads : Subtract(t)
    \/ \E t \in Threads : StoreSample(t)
    \/ \E t \in Threads : AddSample(t)
    \/ \E t \in Threads : Advance(t)
    \/ \E t \in Threads : Return(t)

SpecRace == InitRace /\ [][NextRace]_vars

\* ------------------------------------------------------------ helpers of the claims
RECURSIVE SumOver(_, _)
SumOver(f, D) ==
    IF D = {} THEN 0
    ELSE LET d == CHOOSE e \in D : TRUE IN f[d] + SumOver(f, D \ {d})

\* The exact (unrounded) sum of the ring, and of the magnitudes in it.
SumBuffer(s) == SumOver(s.buffer, DOMAIN s.buffer)
SumAbsBuffer(s) == SumOver([i \in DOMAIN s.buffer |-> Abs(s.buffer[i])], DOMAIN s.buffer)

\* The inputs the k-th filter_sample call should average: the last min(k, N).
Recent(k) ==
    LET m == IF k < self.window_size THEN k ELSE self.window_size
    IN  (k - m + 1) .. k

Constructed == self # NULL
Fresh(s) == s = MovingAverageFilter(s.window_size).self

\* ------------------------------------------------------------ C1
\* C1: in every reachable state of an averager, runningSum (self.sum) equals
\* the sum of the values stored in the ring.  The spec grants a floating-point
\* tolerance; the statement below grants far more, half the magnitude of the
\* ring's contents, and is still violated: with window_size 2 and the samples
\* Big, One, 0 the sum Big + One rounds to Big, and subtracting Big when it
\* leaves the window gives 0 for a ring that holds 0 and One.
RunningSumEqualsBufferSum ==
    Constructed => 2 * Abs(self.sum - SumBuffer(self)) <= SumAbsBuffer(self)

\* ------------------------------------------------------------ C2
\* C2: on a fresh averager the k-th filter_sample result is the sum of the
\* most recent min(k, N) inputs divided by N.  Stated with a tolerance of half
\* the magnitude of those inputs (plus the rounding of the division).
OutputIsWindowMean ==
    Constructed =>
        \A k \in 1 .. Len(outs) :
            LET N == self.window_size
                mean == SumOver(hist, Recent(k))
                mag == SumOver([j \in Recent(k) |-> Abs(hist[j])], Recent(k))
            IN  2 * Abs(outs[k] * N - mean) <= mag + N

\* ------------------------------------------------------------ C3
\* C3: constructing with window_size <= 0 fails, and the caller gets no object.
NonPositiveWindowRejected ==
    (ret.op = "__init__" /\ ret.arg <= 0) => (ret.raised # "" /\ self = NULL)

\* ------------------------------------------------------------ C4
\* C4: filter_signal(xs) on a fresh averager returns, element for element,
\* what len(xs) successive filter_sample calls on another fresh averager of
\* the same window_size return, and both end in the same state.
ArrayEqualsStreaming ==
    (ret.op = "filter_signal" /\ ret.raised = "" /\ Fresh(ret.pre)) =>
        LET stream == FilterSamples(MovingAverageFilter(ret.pre.window_size).self,
                                    ret.arg, 1)
        IN  /\ Len(ret.value) = Len(ret.arg)
            /\ \A i \in 1 .. Len(ret.arg) : ret.value[i] = stream.values[i]
            /\ self = stream.self

\* ------------------------------------------------------------ C5
\* The element type of xs ++ ys: the common one, float64 when they differ (an
\* empty array takes the other's).
ConcatDType(xs, dx, ys, dy) ==
    IF xs = <<>> THEN dy
    ELSE IF ys = <<>> THEN dx
    ELSE IF dx = dy THEN dx ELSE "float64"

\* C5: filter_signal(xs) followed by filter_signal(ys) on the same instance
\* returns outputs whose concatenation is filter_signal(xs ++ ys) from the
\* same starting state, and ends in the same state.
SignalCallsCompose ==
    [][(/\ ret.op = "filter_signal" /\ ret.raised = ""
        /\ ret'.op = "filter_signal" /\ ret'.raised = "")
       => LET whole == filter_signal(ret.pre, ret.arg \o ret'.arg,
                           ConcatDType(ret.arg, ret.dtype, ret'.arg, ret'.dtype))
          IN  /\ ret.value \o ret'.value = whole.value
              /\ self' = whole.self]_vars

\* The part of C5 about the state alone: the second call starts where the
\* first one ended, whatever the element types.
SignalCallsComposeState ==
    [][(/\ ret.op = "filter_signal" /\ ret.raised = ""
        /\ ret'.op = "filter_signal" /\ ret'.raised = "")
       => /\ ret'.pre = self
          /\ self' = FilterSamples(ret.pre, ret.arg \o ret'.arg, 1).self]_vars

\* ------------------------------------------------------------ C6
IsImpulse(xs) ==
    /\ xs # <<>>
    /\ xs[1] = One
    /\ \A i \in 2 .. Len(xs) : xs[i] = 0

\* C6: a unit impulse fed sample by sample to a fresh averager gives 1/N for
\* the first N outputs, the values of get_impulse_response(), and 0 after.
ImpulseResponseIdentity ==
    (Constructed /\ IsImpulse(hist)) =>
        \A k \in 1 .. Len(outs) :
            IF k <= self.window_size
            THEN /\ outs[k] = FlDiv(One, self.window_size)
                 /\ outs[k] = get_impulse_response(self)[k - 1]
            ELSE outs[k] = 0

ImpulseResponseWitness ==
    /\ Constructed
    /\ IsImpulse(hist)
    /\ self.window_size = MaxN
    /\ Len(outs) > self.window_size
    /\ outs[Len(outs)] = 0
    /\ outs[MaxN] # 0

\* ------------------------------------------------------------ C7
\* C7: once the same value c has been fed window_size times in a row, every
\* further result while c is fed is c.  Stated with a tolerance of half of
\* |c| plus one quantum.
ConstantInputConverges ==
    Constructed =>
        \A k \in 1 .. Len(outs) :
            LET N == self.window_size
            IN  (k >= N /\ \A j \in (k - N + 1) .. k : hist[j] = hist[k])
                    => 2 * Abs(outs[k] - hist[k]) <= Abs(hist[k]) + 1

\* ------------------------------------------------------------ C8
\* C8: on an averager that construction returned, filter_sample,
\* filter_signal, get_impulse_response and get_frequency_response (with
\* num_points > 0) never raise.  (A get_frequency_response call on a
\* window_size 0 object is left out: its outcome is the library's.)
NoOperationRaises ==
    (/\ ret.op \in {"filter_sample", "filter_signal", "get_impulse_response",
                    "get_frequency_response"}
     /\ ret.op = "get_frequency_response" =>
            (ret.arg > 0 /\ ret.pre.window_size > 0))
        => ret.raised = ""

\* ------------------------------------------------------------ C9
\* C9: get_impulse_response and get_frequency_response leave the averager as
\* it was, and return what a fresh averager of the same window_size returns:
\* window_size taps of 1/window_size, and curves that depend on window_size
\* and num_points alone.
QueriesArePure ==
    /\ ret.op = "get_impulse_response" =>
           /\ self = ret.pre
           /\ ret.raised = ""
           /\ DOMAIN ret.value = 0 .. self.window_size - 1
           /\ \A i \in DOMAIN ret.value : ret.value[i] = FlDiv(One, self.window_size)
    /\ ret.op = "get_frequency_response" =>
           /\ self = ret.pre
           /\ (ret.arg > 0 /\ ret.raised = "") =>
                  ret.value = get_frequency_response(
                                  MovingAverageFilter(self.window_size).self,
                                  ret.arg, "").value

QueriesArePureWitness ==
    /\ ret.op = "get_frequency_response"
    /\ ret.arg > 0
    /\ ret.raised = ""
    /\ self.window_size = MaxN
    /\ Len(hist) > self.window_size
    /\ self.sum # 0

\* ------------------------------------------------------------ C10
\* C10: one filter_sample(x) call with write index i stores x in buffer[i],
\* makes the running sum (sum - old buffer[i]) + x, advances the index to
\* (i + 1) mod window_size, and leaves every other slot, the length of the
\* buffer and window_size as they were.
FilterSampleFrame ==
    (ret.op = "filter_sample" /\ ret.raised = "") =>
        LET i == ret.pre.index
            x == ret.arg
        IN  /\ self.buffer[i] = x
            /\ self.sum = FlAdd(FlSub(ret.pre.sum, ret.pre.buffer[i]), x)
            /\ self.index = (i + 1) % ret.pre.window_size
            /\ \A j \in DOMAIN ret.pre.buffer \ {i} : self.buffer[j] = ret.pre.buffer[j]
            /\ DOMAIN self.buffer = DOMAIN ret.pre.buffer
            /\ self.window_size = ret.pre.window_size

FilterSampleFrameWitness ==
    /\ ret.op = "filter_sample"
    /\ ret.raised = ""
    /\ ret.pre.window_size > 1
    /\ ret.pre.index = ret.pre.window_size - 1
    /\ self.index = 0
    /\ ret.pre.buffer[ret.pre.index] # 0
    /\ ret.arg # ret.pre.buffer[ret.pre.index]

\* ------------------------------------------------------------ C11
\* C11: in every reachable state the write index is the number of samples
\* processed since construction modulo window_size, and lies in
\* [0, window_size).
WriteIndexCountsSamples ==
    Constructed =>
        /\ self.index \in 0 .. self.window_size - 1
        /\ self.window_size > 0 => self.index = Len(hist) % self.window_size

\* The same for the averagers with a window: it holds for every
\* window_size >= 1, and fails for the window_size 0 object alone.
WriteIndexCountsSamplesInWindow ==
    (Constructed /\ self.window_size > 0) =>
        /\ self.index \in 0 .. self.window_size - 1
        /\ self.index = Len(hist) % self.window_size

\* ------------------------------------------------------------ C12
\* C12: with window_size 1 every filter_sample(x) returns x, whatever was
\* filtered before.
WindowOneIsIdentity ==
    (ret.op = "filter_sample" /\ ret.raised = "" /\ ret.pre.window_size = 1)
        => ret.value = ret.arg

WindowOneIsIdentityWitness ==
    /\ ret.op = "filter_sample"
    /\ ret.raised = ""
    /\ ret.pre.window_size = 1
    /\ Len(hist) = MaxSamples
    /\ ret.pre.buffer[0] = Big
    /\ ret.arg = One
    /\ ret.value = One

\* ------------------------------------------------------------ C13
\* C13: get_frequency_response with num_points <= 0 fails instead of
\* returning curves, and leaves the averager as it was.
NonPositiveNumPointsRejected ==
    (/\ ret.op = "get_frequency_response"
     /\ ret.arg <= 0
     /\ ret.pre.window_size > 0)
        => (ret.raised # "" /\ self = ret.pre)

\* ------------------------------------------------------------ C15
ZerosUpTo(d) == \A j \in 1 .. d : hist[j] = 0

\* What a fresh averager of the same window_size does with the input from
\* sample d + 1 on.
Undelayed(d) ==
    FilterSamples(MovingAverageFilter(self.window_size).self,
                  SubSeq(hist, d + 1, Len(hist)), 1)

\* C15: d zeros followed by xs give d zeros followed by exactly the outputs
\* of xs on a fresh averager; the write index of the delayed averager is
\* ahead by d modulo window_size.
TimeInvariance ==
    Constructed =>
        \A d \in 0 .. Len(hist) :
            ZerosUpTo(d) =>
                LET u == Undelayed(d)
                IN  /\ \A k \in 1 .. Len(outs) :
                           outs[k] = IF k <= d THEN 0 ELSE u.values[k - d]
                    /\ self.window_size > 0 =>
                           self.index = (d + u.self.index) % self.window_size

TimeInvarianceWitness ==
    /\ Constructed
    /\ self.window_size = 2
    /\ Len(hist) = MaxSamples
    /\ ZerosUpTo(1)
    /\ hist[2] = Big
    /\ hist[3] = One
    /\ outs[Len(outs)] # 0
    /\ self.index # Undelayed(1).self.index

\* ------------------------------------------------------------ C17
\* C17: after k samples the slot j places behind the write index holds the
\* j-th most recent input when j < k, and 0 otherwise; so the slot the next
\* filter_sample overwrites holds the oldest retained input, or a zero that
\* was never written.
RingHoldsRecentInputs ==
    Constructed =>
        LET N == self.window_size
            k == Len(hist)
        IN  /\ \A j \in 0 .. N - 1 :
                   self.buffer[(self.index - 1 - j) % N] =
                       IF j < k THEN hist[k - j] ELSE 0
            /\ N > 0 => self.buffer[self.index] =
                            IF k >= N THEN hist[k - N + 1] ELSE 0

RingHoldsRecentInputsWitness ==
    /\ Constructed
    /\ self.window_size = MaxN
    /\ Len(hist) > MaxN
    /\ self.index = 1
    /\ hist[1] = Big
    /\ self.buffer[0] = One
    /\ self.buffer[self.index] = -One

\* ------------------------------------------------------------ C14
Scalars == {-1, 1, 2}

\* The input a * xs + b * ys, as the caller computes it in floats.
Combine(a, xs, b, ys) ==
    [i \in 1 .. Len(xs) |-> FlAdd(Round(a * xs[i], 1), Round(b * ys[i], 1))]

FreshOutputs(xs) ==
    FilterSamples(MovingAverageFilter(self.window_size).self, xs, 1).values

\* C14: for fresh averagers of the same window_size, the k-th output for
\* a * xs + b * ys is a times the k-th output for xs plus b times the k-th
\* output for ys.  Stated with a tolerance of half the magnitude of the two
\* terms plus one quantum.
Linearity ==
    (Constructed /\ self.window_size > 0) =>
        \A ys \in Signals(Len(hist)) : \A a \in Scalars : \A b \in Scalars :
            LET fy == FreshOutputs(ys)
                fc == FreshOutputs(Combine(a, hist, b, ys))
            IN  \A k \in 1 .. Len(outs) :
                    2 * Abs(fc[k] - (a * outs[k] + b * fy[k]))
                        <= Abs(a * outs[k]) + Abs(b * fy[k]) + 1

\* ------------------------------------------------------------ C18
\* C18: two independently constructed averagers share nothing: under any
\* interleaving of filter_sample calls each one's ring, index and sum, and
\* each one's outputs, are those of its own stream filtered alone, so no call
\* on one changes the other.
InstancesAreIndependent ==
    /\ \A i \in Instances :
           objs[i] # NULL =>
               LET alone == FilterSamples(
                                MovingAverageFilter(objs[i].window_size).self,
                                logs[i].hist, 1)
               IN  /\ View(i) = alone.self
                   /\ logs[i].outs = alone.values
    /\ (objs["a"] # NULL /\ objs["b"] # NULL) => objs["a"].buffer # objs["b"].buffer

InstancesAreIndependentWitness ==
    /\ objs["a"] # NULL
    /\ objs["b"] # NULL
    /\ objs["a"].window_size = 2
    /\ objs["b"].window_size = 2
    /\ logs["a"].hist = <<Big, One>>
    /\ logs["b"].hist = <<One, -One>>
    /\ View("a").buffer # View("b").buffer

\* ------------------------------------------------------------ C19
\* C19, the part about interleaved calls: after two calls whose statements
\* interleaved, both finished, the sum is not the sum of the ring.
RaceBreaksSum ==
    /\ AllIdle
    /\ overlapped
    /\ Len(hist) = 2
    /\ self.window_size = 1
    /\ self.buffer[0] = One
    /\ self.sum = 2 * One
    /\ 2 * Abs(self.sum - SumBuffer(self)) > SumAbsBuffer(self)

\* C19, the part about calls that run one at a time: no state is reachable,
\* with every call finished, in which the sum differs from the sum of the
\* ring.  Stated with the tolerance of C1.
AtomicCallsKeepSum ==
    (AllIdle /\ ~overlapped) =>
        2 * Abs(self.sum - SumBuffer(self)) <= SumAbsBuffer(self)

====
